---- MODULE Spec2Model ----
(***************************************************************************)
(* Model of the image-quality metrics of fetal_brain_qc/metrics/utils.py.  *)
(*                                                                         *)
(* Numbers are exact.  An intensity is an integer count of 1/Scale units.  *)
(* A value the code obtains with sqrt or log is kept in closed form:       *)
(*   kind "ssqrt" : sign * sqrt(num / den)                                 *)
(*   kind "log"   : ln(num / den) / n                                      *)
(*   kind "ratio" : num / den                                              *)
(*   kind "logquot": ln(num / den) / ln(aux[1] / aux[2])                   *)
(* with num/den in lowest terms, so that two results are the same real     *)
(* number exactly when the records are equal.  Floating-point rounding is  *)
(* outside the model.                                                      *)
(***************************************************************************)
EXTENDS Integers, Sequences, FiniteSets, TLC

\* ---------------------------------------------------------------- bounds
\* largest number of elements of an input array
MaxLen == 3
\* intensities are 0..MaxVal, in units of 1/Scale
MaxVal == 2
\* intensity units per whole number
Scale == 2
\* bin counts are 1..MaxBins
MaxBins == 3
MaxRuns == 3

VARIABLES
    x,        \* first array argument of the metric call
    x_ref,    \* reference array argument
    bins,     \* bins argument of the entropy metrics
    mask,     \* mask argument of ssim: <<>> is None, <<m>> a mask array m
    datarange,\* datarange argument of psnr/ssim: <<>> is None, <<v>> the value
    pc,       \* "ready", "ncc_body" (past the shape check), "done"
    op,       \* the metric that was called
    arith,    \* whether the call has done arithmetic on the arrays
    lib,      \* the call made to the skimage routine, if any
    result,   \* what the call returned or raised
    cli,      \* one invocation of run_docker.main
    svrtk     \* one invocation of run_qc_svrtk.main

vars == <<x, x_ref, bins, mask, datarange, pc, op, arith, lib, result, cli, svrtk>>

\* ---------------------------------------------------------------- integers
Abs(v) == IF v < 0 THEN -v ELSE v

Max2(a, b) == IF a >= b THEN a ELSE b

Min2(a, b) == IF a <= b THEN a ELSE b

RECURSIVE Gcd(_, _)
Gcd(a, b) == IF b = 0 THEN a ELSE Gcd(b, a % b)

RECURSIVE Pow(_, _)
Pow(b, e) == IF e = 0 THEN 1 ELSE b * Pow(b, e - 1)

RECURSIVE SumSeq(_)
SumSeq(s) == IF s = <<>> THEN 0 ELSE Head(s) + SumSeq(Tail(s))

RECURSIVE MaxSeq(_)
MaxSeq(s) == IF Len(s) = 1 THEN s[1] ELSE Max2(Head(s), MaxSeq(Tail(s)))

RECURSIVE MinSeq(_)
MinSeq(s) == IF Len(s) = 1 THEN s[1] ELSE Min2(Head(s), MinSeq(Tail(s)))

\* ---------------------------------------------------------------- arrays
\* An array is [ndim, rows]: a 1-D array of n elements has one row of n, a 2-D
\* array of shape (r, c) has r rows of c.
Shape(a) == IF a.ndim = 1 THEN <<Len(a.rows[1])>>
            ELSE <<Len(a.rows), Len(a.rows[1])>>

NRows(a) == Len(a.rows)

NCols(a) == Len(a.rows[1])

\* a.size
Size(a) == NRows(a) * NCols(a)

RECURSIVE Concat(_)
Concat(rows) == IF rows = <<>> THEN <<>> ELSE Head(rows) \o Concat(Tail(rows))

\* a.flatten(): the elements in row-major order
Flatten(a) == Concat(a.rows)

Arrays1D(vals) ==
    UNION {{[ndim |-> 1, rows |-> <<d>>] : d \in [1..n -> vals]} : n \in 1..MaxLen}

Arrays2D(vals) ==
    UNION {{[ndim |-> 2, rows |-> d] : d \in [1..rc[1] -> [1..rc[2] -> vals]]} :
           rc \in {p \in (1..MaxLen) \X (1..MaxLen) : p[1] * p[2] <= MaxLen}}

Values == 0..MaxVal

Arrays == Arrays1D(Values) \cup Arrays2D(Values)

SameShapeArrays(a) == {b \in Arrays : Shape(b) = Shape(a)}

Shapes == {Shape(a) : a \in Arrays}

IsSorted(f) == \A i \in 1..(Len(f) - 1) : f[i] <= f[i + 1]

\* The arrays whose elements are in non-decreasing row-major order.  Every metric
\* of the module sums over the positions k of the pairs (x[k], x_ref[k]), so a
\* pair (x, x_ref) of equal shape is listed once per joint reordering.
SortedArrays == {a \in Arrays : IsSorted(Flatten(a))}

\* np.resize(a, s): an array of shape s filled with a's elements, repeated
Resized(a, s) ==
    LET f == Flatten(a)
        r == IF Len(s) = 1 THEN 1 ELSE s[1]
        c == IF Len(s) = 1 THEN s[1] ELSE s[2]
    IN [ndim |-> Len(s),
        rows |-> [i \in 1..r |-> [j \in 1..c |-> f[(((i - 1) * c + j - 1) % Len(f)) + 1]]]]

\* -a
Neg(a) == [ndim |-> a.ndim,
           rows |-> [i \in 1..NRows(a) |-> [j \in 1..NCols(a) |-> -a.rows[i][j]]]]

\* ---------------------------------------------------------------- results
Res(k, e, s, p, q, m) ==
    [kind |-> k, err |-> e, sign |-> s, num |-> p, den |-> q, n |-> m,
     aux |-> <<1, 1>>]

NoResult == Res("none", "", 0, 0, 1, 0)

Raised(e) == Res("raise", e, 0, 0, 1, 0)

NaN == Res("nan", "", 0, 0, 1, 0)

Inf(s) == Res("inf", "", s, 0, 1, 0)

\* sign * sqrt(p / q), q > 0
SignedSqrt(s, p, q) ==
    LET g == Gcd(p, q) IN Res("ssqrt", "", IF p = 0 THEN 0 ELSE s, p \div g, q \div g, 0)

\* p / q, q > 0
Ratio(p, q) ==
    LET g == Gcd(Abs(p), q)
    IN Res("ratio", "", IF p > 0 THEN 1 ELSE IF p < 0 THEN -1 ELSE 0, p \div g, q \div g, 0)

NoLib == [fn |-> "none", data_range |-> <<>>, mssim |-> 0, S |-> <<>>]

\* ---------------------------------------------------------------- NCC
\* variant: the test comparing element counts only
ShapesDiffer_bySize(a, b) == Size(a) # Size(b)

\* x.shape != x_ref.shape
ShapesDiffer(a, b) == Shape(a) # Shape(b)

\* N * (a - a.mean()), flattened: N*a[i] - sum(a)
Centered(a) ==
    LET f == Flatten(a) IN [i \in 1..Len(f) |-> Len(f) * f[i] - SumSeq(f)]

\* sum(u * v) of two flattened arrays
Dot(u, v) == SumSeq([i \in 1..Len(u) |-> u[i] * v[IF i <= Len(v) THEN i ELSE 1]])

\* variant: x.size - 1 with the population standard deviation (ddof=0)
NccValue_popStd(a, b) ==
    LET N   == Size(a)
        Sxy == Dot(Centered(a), Centered(b))
        Sxx == Dot(Centered(a), Centered(a))
        Syy == Dot(Centered(b), Centered(b))
    IN IF N = 1 \/ Sxx * Syy = 0 THEN NaN
       ELSE SignedSqrt(IF Sxy < 0 THEN -1 ELSE 1,
                       Sxy * Sxy * N * N, (N - 1) * (N - 1) * Sxx * Syy)

\* np.sum((x - x.mean()) * (x_ref - x_ref.mean()))
\*   / float(x.size * x.std(ddof=1) * x_ref.std(ddof=1))
\* With N = x.size, Sxy = Dot(Centered(x), Centered(x_ref)) = N^2 * numerator and
\* std(ddof=1)^2 = Sxx / (N^2 * (N-1)), the quotient is
\*   Sxy * (N-1) / (N * sqrt(Sxx * Syy)).
\* N = 1 gives std = nan, a constant array gives 0/0: numpy returns nan.
NccValue(a, b) ==
    LET N   == Size(a)
        Sxy == Dot(Centered(a), Centered(b))
        Sxx == Dot(Centered(a), Centered(a))
        Syy == Dot(Centered(b), Centered(b))
    IN IF N = 1 \/ Sxx * Syy = 0 THEN NaN
       ELSE SignedSqrt(IF Sxy < 0 THEN -1 ELSE 1,
                       Sxy * Sxy * (N - 1) * (N - 1), N * N * Sxx * Syy)

\* normalized_cross_correlation, lines 37-38: the shape check
\* The object the in-place operators of a metric write to (ncc /= at line 41,
\* mi += and mi -= at 135-136, nmi += and nmi /= at 163-164). np.sum and
\* shannon_entropy return a new numpy scalar, which is immutable: the operator
\* rebinds the local name. An in-place operator on an ndarray writes into it.
\* variant: the accumulator of NCC is the array x itself (ncc = x; ncc -= ...)
Accumulator_isX(metric) ==
    IF metric = "ncc" THEN [obj |-> "x", mutable |-> TRUE]
    ELSE [obj |-> "local", mutable |-> FALSE]

Accumulator(metric) == [obj |-> "local", mutable |-> FALSE]

\* an array an in-place operator wrote into holds other elements
Overwritten(a) ==
    [a EXCEPT !.rows = [r \in DOMAIN a.rows |->
                           [c \in DOMAIN a.rows[r] |-> a.rows[r][c] + 1]]]

\* the argument array `name`, holding a, after the in-place operators on acc
AfterInPlace(acc, name, a) ==
    IF acc.mutable /\ acc.obj = name THEN Overwritten(a) ELSE a

NccShapeCheck ==
    /\ pc = "ready"
    /\ op' = "ncc"
    /\ IF ShapesDiffer(x, x_ref)
       THEN /\ result' = Raised("ValueError")
            /\ pc' = "done"
       ELSE /\ result' = result
            /\ pc' = "ncc_body"
    /\ UNCHANGED <<x, x_ref, bins, mask, datarange, arith, lib, cli, svrtk>>

\* normalized_cross_correlation, lines 40-43
NccCompute ==
    /\ pc = "ncc_body"
    /\ arith' = TRUE
    /\ result' = NccValue(x, x_ref)
    /\ pc' = "done"
    /\ x' = AfterInPlace(Accumulator("ncc"), "x", x)
    /\ x_ref' = AfterInPlace(Accumulator("ncc"), "x_ref", x_ref)
    /\ UNCHANGED <<bins, mask, datarange, op, lib, cli, svrtk>>


\* ---------------------------------------------------------------- histograms
\* numpy's _get_outer_edges, doubled so that the halves stay integers: the range
\* is (min, max), widened to (min - 0.5, max + 0.5) when min = max.
OuterEdges2(f) ==
    LET mn == MinSeq(f)
        mx == MaxSeq(f)
    IN IF mn = mx THEN <<2 * mn - Scale, 2 * mx + Scale>> ELSE <<2 * mn, 2 * mx>>

\* np.histogram's bin of v (0-based): int((v - first_edge) / (last_edge -
\* first_edge) * bins), and the index `bins` (v on the last edge) becomes bins-1.
\* variant: without the move of index `bins` into the last bin
BinIndex_open(v, e2, b) == ((2 * v - e2[1]) * b) \div (e2[2] - e2[1])

\* the bin as np.histogram computes it
BinIndex(v, e2, b) ==
    LET k == ((2 * v - e2[1]) * b) \div (e2[2] - e2[1])
    IN IF k = b THEN b - 1 ELSE k

\* np.histogram(x, bins=b)[0], over the flattened array f
Histogram1D(f, b) ==
    LET e2  == OuterEdges2(f)
        idx == [i \in 1..Len(f) |-> BinIndex(f[i], e2, b)]
    IN [k \in 1..b |-> Cardinality({i \in 1..Len(f) : idx[i] = k - 1})]

\* np.histogramdd's bin of v on one axis (1-based): searchsorted(edges, v,
\* side='right') counts the edges linspace(first, last, b+1) that are <= v, and a
\* value on the last edge is moved into the last bin.
\* variant: the plain searchsorted count, a value on the last edge left outside
EdgeBin_noedge(v, e2, b) ==
    Cardinality({k \in 0..b : e2[1] * b + k * (e2[2] - e2[1]) <= 2 * v * b})

\* the bin as np.histogramdd computes it
EdgeBin(v, e2, b) ==
    LET cnt == Cardinality({k \in 0..b : e2[1] * b + k * (e2[2] - e2[1]) <= 2 * v * b})
    IN IF 2 * v = e2[2] THEN cnt - 1 ELSE cnt

\* variant: the last edge of the second axis left open
Histogram2D_secondAxisOpen(f, g, b) ==
    LET ef == OuterEdges2(f)
        eg == OuterEdges2(g)
        bf == [k \in 1..Len(f) |-> EdgeBin(f[k], ef, b)]
        bg == [k \in 1..Len(g) |-> EdgeBin_noedge(g[k], eg, b)]
    IN [i \in 1..b |-> [j \in 1..b |->
           Cardinality({k \in 1..Len(f) : bf[k] = i /\ bg[k] = j})]]

\* np.histogram2d(f, g, bins=b)[0]: b rows (bins of f) of b columns (bins of g);
\* the outlier bins 0 and b+1 are cut off.
Histogram2D(f, g, b) ==
    LET ef == OuterEdges2(f)
        eg == OuterEdges2(g)
        bf == [k \in 1..Len(f) |-> EdgeBin(f[k], ef, b)]
        bg == [k \in 1..Len(g) |-> EdgeBin(g[k], eg, b)]
    IN [i \in 1..b |-> [j \in 1..b |->
           Cardinality({k \in 1..Len(f) : bf[k] = i /\ bg[k] = j})]]

\* ---------------------------------------------------------------- entropies
\* ln(p / q) / m
Log(m, p, q) == LET g == Gcd(p, q) IN Res("log", "", 0, p \div g, q \div g, m)

\* a + b and a - b of two "log" values over the same m
LogAdd(a, b) ==
    LET g1 == Gcd(a.num, b.den)
        g2 == Gcd(b.num, a.den)
    IN Log(a.n, (a.num \div g1) * (b.num \div g2), (a.den \div g2) * (b.den \div g1))

LogSub(a, b) ==
    LET g1 == Gcd(a.num, b.num)
        g2 == Gcd(b.den, a.den)
    IN Log(a.n, (a.num \div g1) * (b.den \div g2), (a.den \div g2) * (b.num \div g1))

\* variant: without the `if p != 0` filter
EntropyTerms_all(counts) == counts

\* [p ... for p in prob.flatten() if p != 0]: the cells the sum runs over
EntropyTerms(counts) == SelectSeq(counts, LAMBDA c : c # 0)

RECURSIVE PowProd(_)
PowProd(t) == IF t = <<>> THEN 1 ELSE Pow(Head(t), Head(t)) * PowProd(Tail(t))

\* -sum(p * log(p)) with p = c / N over the cells c of `counts`:
\*   N * H = N*ln(N) - sum(c * ln(c)) = ln(N^N / prod(c^c)).
\* A zero cell reaching the sum is 0 * log(0) = nan.
EntropyOf(counts) ==
    LET N == SumSeq(counts)
        t == EntropyTerms(counts)
    IN IF \E i \in 1..Len(t) : t[i] = 0 THEN NaN
       ELSE Log(N, Pow(N, N), PowProd(t))

\* shannon_entropy(a, bins=b)
shannon_entropy(a, b) == EntropyOf(Histogram1D(Flatten(a), b))

\* the histogram of joint_entropy, lines 98-100
JointHistogram(a, c, b) == Histogram2D(Flatten(a), Flatten(c), b)

\* joint_entropy(a, c, bins=b); histogram2d rejects sequences of unequal length
joint_entropy(a, c, b) ==
    IF Size(a) # Size(c) THEN Raised("ValueError")
    ELSE EntropyOf(Concat(JointHistogram(a, c, b)))

\* mutual_information(a, c, bins=b)
mutual_information(a, c, b) ==
    LET hx == shannon_entropy(a, b)
        hy == shannon_entropy(c, b)
        j  == joint_entropy(a, c, b)
    IN IF j.kind = "raise" THEN j ELSE LogSub(LogAdd(hx, hy), j)

\* normalized_mutual_information(a, c, bins=b): (H(a) + H(c)) / H(a, c);
\* a zero joint entropy divides by zero (0/0 = nan, v/0 = inf)
normalized_mutual_information(a, c, b) ==
    LET hx == shannon_entropy(a, b)
        hy == shannon_entropy(c, b)
        j  == joint_entropy(a, c, b)
        s  == LogAdd(hx, hy)
    IN IF j.kind = "raise" THEN j
       ELSE IF j.num = j.den THEN (IF s.num = s.den THEN NaN ELSE Inf(1))
       ELSE [Res("logquot", "", 0, s.num, s.den, 0) EXCEPT !.aux = <<j.num, j.den>>]

Returns(name, value) ==
    /\ pc = "ready"
    /\ op' = name
    /\ arith' = TRUE
    /\ result' = value
    /\ pc' = "done"
    /\ x' = AfterInPlace(Accumulator(name), "x", x)
    /\ x_ref' = AfterInPlace(Accumulator(name), "x_ref", x_ref)
    /\ UNCHANGED <<bins, mask, datarange, cli, svrtk>>

ShannonEntropy == Returns("shannon_entropy", shannon_entropy(x, bins)) /\ lib' = lib

JointEntropy == Returns("joint_entropy", joint_entropy(x, x_ref, bins)) /\ lib' = lib

MutualInformation ==
    Returns("mutual_information", mutual_information(x, x_ref, bins)) /\ lib' = lib

NormalizedMutualInformation ==
    /\ Returns("normalized_mutual_information",
               normalized_mutual_information(x, x_ref, bins))
    /\ lib' = lib


\* ---------------------------------------------------------------- pixel metrics
\* numpy broadcasting of a 1-D or 2-D operand: a 1-D array of n is a row (1, n)
Dims2(a) == <<NRows(a), NCols(a)>>

Broadcastable(a, b) ==
    \A d \in 1..2 : Dims2(a)[d] = Dims2(b)[d] \/ Dims2(a)[d] = 1 \/ Dims2(b)[d] = 1

At(a, i, j) == a.rows[IF NRows(a) = 1 THEN 1 ELSE i][IF NCols(a) = 1 THEN 1 ELSE j]

\* abs(a - b), for broadcastable a and b
AbsDiff(a, b) ==
    [ndim |-> Max2(a.ndim, b.ndim),
     rows |-> [i \in 1..Max2(NRows(a), NRows(b)) |->
                  [j \in 1..Max2(NCols(a), NCols(b)) |-> Abs(At(a, i, j) - At(b, i, j))]]]

\* Python's builtin sum(a) adds the items of a along its first axis: the sum of
\* the elements of a 1-D array, the sum of the rows of a 2-D array.
BuiltinSum(a) ==
    IF a.ndim = 1 THEN <<SumSeq(a.rows[1])>>
    ELSE [j \in 1..NCols(a) |-> SumSeq([i \in 1..NRows(a) |-> a.rows[i][j]])]

\* int(v) of a value v >= 0 or < 0 in 1/Scale units, again in 1/Scale units
TruncToInt(v) == IF v >= 0 THEN (v \div Scale) * Scale ELSE -(((-v) \div Scale) * Scale)

\* int(np.amax(x_ref) - min(np.amin(x), np.amin(x_ref)))
InferredRange(a, b) ==
    TruncToInt(MaxSeq(Flatten(b)) - Min2(MinSeq(Flatten(a)), MinSeq(Flatten(b))))

\* `if not datarange: datarange = ...`: None and 0 are both falsy
EffectiveRange(dr, a, b) ==
    IF dr = <<>> \/ dr = <<0>> THEN InferredRange(a, b) ELSE dr[1]

SumSq(a, b) == LET d == Flatten(AbsDiff(a, b)) IN Dot(d, d)

\* 10 * log10(p / q)
Decibel(p, q) == LET g == Gcd(p, q) IN Res("db", "", 0, p \div g, q \div g, 0)

\* skimage.metrics.peak_signal_noise_ratio(a, b, data_range=r):
\* check_shape_equality, then 10 * log10(r^2 / mse)
peak_signal_noise_ratio(a, b, r) ==
    IF Shape(a) # Shape(b) THEN Raised("ValueError")
    ELSE IF SumSq(a, b) = 0 THEN Inf(1)
    ELSE IF r = 0 THEN Inf(-1)
    ELSE Decibel(r * r * Size(a), SumSq(a, b))

\* `sum(abs(x - x_ref)) < 1e-13` as the condition of an if.  The sums are
\* multiples of 1/Scale, so one is below 1e-13 exactly when it is 0.  A
\* comparison that yields an array of more than one element has no truth value.
IdenticalTest(a, b) ==
    LET t == BuiltinSum(AbsDiff(a, b))
    IN IF Len(t) > 1 THEN "ValueError" ELSE IF t[1] = 0 THEN "true" ELSE "false"

psnr_lib(a, b, dr) ==
    IF Broadcastable(a, b) /\ IdenticalTest(a, b) = "false"
    THEN [fn |-> "peak_signal_noise_ratio", data_range |-> <<EffectiveRange(dr, a, b)>>,
          mssim |-> 0, S |-> <<>>]
    ELSE NoLib

\* psnr(a, b, datarange=dr)
psnr(a, b, dr) ==
    IF ~Broadcastable(a, b) THEN Raised("ValueError")
    ELSE IF IdenticalTest(a, b) = "ValueError" THEN Raised("ValueError")
    ELSE IF IdenticalTest(a, b) = "true" THEN NaN
    ELSE peak_signal_noise_ratio(a, b, EffectiveRange(dr, a, b))

Psnr ==
    /\ Returns("psnr", psnr(x, x_ref, datarange))
    /\ lib' = psnr_lib(x, x_ref, datarange)

\* skimage.metrics.normalized_root_mse(a, b): check_shape_equality, then
\* sqrt(mse(a, b)) / sqrt(mean(a * a))
nrmse(a, b) ==
    IF Shape(a) # Shape(b) THEN Raised("ValueError")
    ELSE LET sq == Dot(Flatten(a), Flatten(a))
         IN IF sq = 0 THEN (IF SumSq(a, b) = 0 THEN NaN ELSE Inf(1))
            ELSE SignedSqrt(1, SumSq(a, b), sq)

\* np.sqrt(skimage.metrics.mean_squared_error(a, b)), in 1/Scale units
rmse(a, b) ==
    IF Shape(a) # Shape(b) THEN Raised("ValueError")
    ELSE SignedSqrt(1, SumSq(a, b), Size(a))

\* variant: the mean of the signed differences, np.mean(a - b)
mae_signed(a, b) ==
    IF ~Broadcastable(a, b) THEN Raised("ValueError")
    ELSE LET d == AbsDiff(a, b)
             s == [i \in 1..NRows(d) |->
                      SumSeq([j \in 1..NCols(d) |-> At(a, i, j) - At(b, i, j)])]
         IN Ratio(SumSeq(s), Size(d))

\* np.mean(abs(a - b)), in 1/Scale units
mae(a, b) ==
    IF ~Broadcastable(a, b) THEN Raised("ValueError")
    ELSE LET d == Flatten(AbsDiff(a, b)) IN Ratio(SumSeq(d), Len(d))

\* variant: the quotient of two Python floats, which raises on a zero divisor
nmae_pythonFloats(a, b) ==
    LET m  == mae(a, b)
        fb == Flatten(b)
        sb == SumSeq([i \in 1..Len(fb) |-> Abs(fb[i])])
    IN IF m.kind = "raise" THEN m
       ELSE IF sb = 0 THEN Raised("ZeroDivisionError")
       ELSE Ratio(m.num * Len(fb), m.den * sb)

\* mae(a, b) / np.mean(np.abs(b))
nmae(a, b) ==
    LET m  == mae(a, b)
        fb == Flatten(b)
        sb == SumSeq([i \in 1..Len(fb) |-> Abs(fb[i])])
    IN IF m.kind = "raise" THEN m
       ELSE IF sb = 0 THEN (IF m.num = 0 THEN NaN ELSE Inf(1))
       ELSE Ratio(m.num * Len(fb), m.den * sb)

Nrmse == Returns("nrmse", nrmse(x, x_ref)) /\ lib' = lib

Rmse == Returns("rmse", rmse(x, x_ref)) /\ lib' = lib

Mae == Returns("mae", mae(x, x_ref)) /\ lib' = lib

Nmae == Returns("nmae", nmae(x, x_ref)) /\ lib' = lib

\* ---------------------------------------------------------------- SSIM
\* values a cell of the SSIM map, and the global mean, may take
SsimValues == {0, 1}

\* values a cell of a mask may take
MaskValues == {-1, 0, 1}

Masks(a) == {m \in Arrays1D(MaskValues) \cup Arrays2D(MaskValues) : Shape(m) = Shape(a)}

\* what structural_similarity(..., full=True) may return for images shaped like
\* a: <<mssim, S>>, S of the shape of a
SsimReturns(a) ==
    {<<g, m>> : g \in SsimValues,
                m \in {s \in Arrays1D(SsimValues) \cup Arrays2D(SsimValues) :
                          Shape(s) = Shape(a)}}

\* ssim[1][mask > 0]: the cells of S, in row-major order, where the mask holds
\* variant: the cells where the mask is nonzero (ssim[1][mask != 0])
Selected_nonzero(S, m) ==
    LET f == Flatten(S)
        g == Flatten(m)
        pick[k \in 0..Len(f)] ==
            IF k = 0 THEN <<>>
            ELSE IF g[k] # 0 THEN Append(pick[k - 1], f[k]) ELSE pick[k - 1]
    IN pick[Len(f)]

\* the cells where the mask is positive
Selected(S, m) ==
    LET f == Flatten(S)
        g == Flatten(m)
        pick[k \in 0..Len(f)] ==
            IF k = 0 THEN <<>>
            ELSE IF g[k] > 0 THEN Append(pick[k - 1], f[k]) ELSE pick[k - 1]
    IN pick[Len(f)]

\* pick_ssim(ssim, mask), ssim = <<mssim, S>>; the mean of no cells is nan
pick_ssim(ssim, m) ==
    IF m = <<>> THEN Ratio(ssim[1], 1)
    ELSE LET sel == Selected(ssim[2], m[1])
         IN IF sel = <<>> THEN NaN ELSE Ratio(SumSeq(sel), Len(sel))

\* ssim(x, x_ref, mask, datarange); structural_similarity starts with
\* check_shape_equality, `ret` is what it returns otherwise
Ssim(ret) ==
    /\ pc = "ready"
    /\ op' = "ssim"
    /\ arith' = TRUE
    /\ pc' = "done"
    /\ IF Shape(x) # Shape(x_ref)
       THEN /\ lib' = [fn |-> "structural_similarity",
                       data_range |-> <<EffectiveRange(datarange, x, x_ref)>>,
                       mssim |-> 0, S |-> <<>>]
            /\ result' = Raised("ValueError")
       ELSE /\ lib' = [fn |-> "structural_similarity",
                       data_range |-> <<EffectiveRange(datarange, x, x_ref)>>,
                       mssim |-> ret[1], S |-> <<ret[2]>>]
            /\ result' = pick_ssim(ret, mask)
    /\ UNCHANGED <<x, x_ref, bins, mask, datarange, cli, svrtk>>

\* ---------------------------------------------------------------- run_docker.main
\* the two command-line programs are not part of a metric call
NoCli == [pc |-> "none"]

NoSvrtk == [pc |-> "none"]

metricVars == <<x, x_ref, bins, mask, datarange, pc, op, arith, lib, result>>

\* no metric call takes part in a run of a command-line program
IdleMetrics ==
    /\ x = [ndim |-> 1, rows |-> <<<<0>>>>]
    /\ x_ref = [ndim |-> 1, rows |-> <<<<0>>>>]
    /\ bins = 1
    /\ mask = <<>>
    /\ datarange = <<>>
    /\ pc = "ready"
    /\ op = "none"
    /\ arith = FALSE
    /\ lib = NoLib
    /\ result = NoResult

\* parse_args accepts a command line without a subcommand: command is then None
\* ("none") and args holds no attribute of either subparser
Commands == {"reports", "inference", "none"}

\* the output path arguments main reads for a command (lines 202-205, 208-212)
OutputArgs(command) ==
    IF command = "reports" THEN {"reports_dir", "bids_csv"}
    ELSE IF command = "inference" THEN {"bids_csv", "iqms_csv", "out_csv"}
    ELSE {}

\* the os.makedirs calls of run_reports (64-69) and of run_inference (103-115)
DirsToMake(command) == IF command = "reports" THEN 3 ELSE 4

\* args after parse_args: the command, the output path arguments that are
\* absolute, whether ckpt_path is BRAIN_CKPT, whether custom_model is None
Parsed(command, absolute, ckpt_default, custom_none) ==
    [pc |-> "parsed", command |-> command, absolute |-> absolute,
     ckpt_default |-> ckpt_default, custom_none |-> custom_none,
     fixed_args |-> {}, outputs_check |-> {}, err |-> "",
     dirs |-> 0, docker |-> FALSE, entered |-> "none"]

InitDocker ==
    /\ \E command \in Commands, ckpt_default, custom_none \in BOOLEAN :
          \E absolute \in SUBSET OutputArgs(command) :
             /\ command = "none" => (ckpt_default /\ custom_none)
             /\ command = "reports" => custom_none
             /\ cli = Parsed(command, absolute, ckpt_default, custom_none)
    /\ svrtk = NoSvrtk
    /\ IdleMetrics

\* line 199: fixed_args = {"ckpt_path": args.ckpt_path}
ReadCkptPath ==
    /\ cli.pc = "parsed"
    /\ cli' = IF cli.command = "none"
              THEN [cli EXCEPT !.pc = "exit", !.err = "AttributeError"]
              ELSE [cli EXCEPT !.pc = "dispatch", !.fixed_args = {"ckpt_path"}]
    /\ UNCHANGED <<metricVars, svrtk>>

\* lines 201-219
Dispatch ==
    /\ cli.pc = "dispatch"
    /\ cli' = IF cli.command = "reports"
              THEN [cli EXCEPT !.pc = "check_fixed_args",
                               !.outputs_check = OutputArgs("reports")]
              ELSE IF cli.command = "inference"
              THEN [cli EXCEPT !.pc = "check_fixed_args",
                               !.outputs_check = OutputArgs("inference"),
                               !.fixed_args = @ \cup {"custom_model"}]
              ELSE [cli EXCEPT !.pc = "exit", !.err = "ValueError"]
    /\ UNCHANGED <<metricVars, svrtk>>

\* v != defaults_dict[k] for some k of fixed_args
FixedArgChanged(c) ==
    \/ "ckpt_path" \in c.fixed_args /\ ~c.ckpt_default
    \/ "custom_model" \in c.fixed_args /\ ~c.custom_none

\* line 221
CheckFixedArgs ==
    /\ cli.pc = "check_fixed_args"
    /\ cli' = IF FixedArgChanged(cli)
              THEN [cli EXCEPT !.pc = "exit", !.err = "ValueError"]
              ELSE [cli EXCEPT !.pc = "check_paths"]
    /\ UNCHANGED <<metricVars, svrtk>>

\* os.path.isabs(path) for some path of out_dict
SomePathAbsolute(c) == c.outputs_check \cap c.absolute # {}

\* line 222
CheckPaths ==
    /\ cli.pc = "check_paths"
    /\ cli' = IF SomePathAbsolute(cli)
              THEN [cli EXCEPT !.pc = "exit", !.err = "ValueError"]
              ELSE [cli EXCEPT !.pc = "run"]
    /\ UNCHANGED <<metricVars, svrtk>>

\* lines 224-227, entering run_reports or run_inference
EnterRun ==
    /\ cli.pc = "run"
    /\ cli' = [cli EXCEPT !.pc = "makedirs",
                          !.entered = IF cli.command = "reports" THEN "run_reports"
                                      ELSE "run_inference"]
    /\ UNCHANGED <<metricVars, svrtk>>

\* one os.makedirs(..., exist_ok=True) of run_reports or run_inference
Makedirs ==
    /\ cli.pc = "makedirs"
    /\ cli.dirs < DirsToMake(cli.command)
    /\ cli' = [cli EXCEPT !.dirs = @ + 1]
    /\ UNCHANGED <<metricVars, svrtk>>

\* os.system(cmd), the docker run
LaunchDocker ==
    /\ cli.pc = "makedirs"
    /\ cli.dirs = DirsToMake(cli.command)
    /\ cli' = [cli EXCEPT !.docker = TRUE, !.pc = "exit"]
    /\ UNCHANGED <<metricVars, svrtk>>

NextDocker ==
    \/ ReadCkptPath
    \/ Dispatch
    \/ CheckFixedArgs
    \/ CheckPaths
    \/ EnterRun
    \/ Makedirs
    \/ LaunchDocker

SpecDocker == InitDocker /\ [][NextDocker]_vars

\* ---------------------------------------------------------------- run_qc_svrtk.main
\* Runs are named by their position in the bids csv, 1..Len(bids); name 0 is a
\* run recorded in metrics.csv that the bids csv does not list.
Names == 0..MaxRuns

\* the keys f"sub-{sub}_ses-{ses}"
SubSes == {"sub-1_ses-1", "sub-1_ses-2"}

\* the bids csv: the sub_ses of each run, the first run of the first session
BidsLists ==
    UNION {{b \in [1..n -> SubSes] : b[1] = "sub-1_ses-1"} : n \in 1..MaxRuns}

\* an absent row of a table
NoRow == <<>>

\* rows <<svrtk_qc1, svrtk_qc2>> found in a metrics.csv, as text
StoredRows == {<<"1", "0">>, <<"N/A", "N/A">>}

\* what the two is_run_included calls of a run return: 0 or 1 when the summary
\* file of the tool exists, "N/A" when it does not
Evaluations == {<<"1", "0">>, <<"N/A", "N/A">>, <<"0", "N/A">>}

Present(t) == {n \in Names : t[n] # NoRow}

\* pd.read_csv: "N/A" and the empty field are missing values (nan); a column of
\* integer literals only is int64, any other column float64
MissingText == {"N/A", ""}

IntColumn(t, c) == \A n \in Present(t) : t[n][c] \in {"0", "1"}

AsFloat(v) == IF v \in {"0", "0.0"} THEN "0.0" ELSE "1.0"

ParseCell(t, n, c) ==
    IF t[n][c] \in MissingText THEN "nan"
    ELSE IF IntColumn(t, c) THEN t[n][c]
    ELSE AsFloat(t[n][c])

\* lines 126-132: the table of metrics.csv as a dict keyed by name
ReadCsv(t) ==
    [n \in Names |-> IF t[n] = NoRow THEN NoRow
                     ELSE <<ParseCell(t, n, 1), ParseCell(t, n, 2)>>]

\* DataFrame.from_dict: a column holding a str is of dtype object and keeps
\* each value as it is; otherwise a float or a nan makes the column float64
HasStr(md, c) == \E n \in Present(md) : md[n][c] = "N/A"

HasFloat(md, c) == \E n \in Present(md) : md[n][c] \in {"0.0", "1.0", "nan"}

\* to_csv writes nan as the empty field
FormatCell(md, n, c) ==
    LET v == md[n][c]
    IN IF v = "nan" THEN ""
       ELSE IF v = "N/A" \/ HasStr(md, c) THEN v
       ELSE IF HasFloat(md, c) THEN AsFloat(v)
       ELSE v

\* lines 163-166: the rows of metrics_dict whose name is a row of df_base
\* (join="inner"), written over metrics.csv
ToCsv(md, bids) ==
    [n \in Names |-> IF md[n] # NoRow /\ n \in DOMAIN bids
                     THEN <<FormatCell(md, n, 1), FormatCell(md, n, 2)>>
                     ELSE NoRow]

\* the number a cell stands for, "NA" for a missing one
Num(v) ==
    IF v \in {"0", "0.0"} THEN "0" ELSE IF v \in {"1", "1.0"} THEN "1" ELSE "NA"

Event(ev, pair, run) == [ev |-> ev, pair |-> pair, run |-> run]

\* the state at the start of main: the bids csv, --continue_run, and the
\* metrics.csv found at out_path, if any
Started(bids, cont, exists, t) ==
    [pc |-> "start", bids |-> bids, cont |-> cont, exists |-> exists,
     file0 |-> t, file |-> t, written |-> 0,
     metrics_dict |-> [n \in Names |-> NoRow],
     i |-> 1, processed_sub_ses |-> {}, log |-> <<>>]

InitSvrtk ==
    /\ \E bids \in BidsLists, cont, exists \in BOOLEAN :
          \E t \in [Names -> StoredRows \cup {NoRow}] :
             /\ Present(t) \subseteq 0..Len(bids)
             /\ ~exists => Present(t) = {}
             /\ svrtk = Started(bids, cont, exists, t)
    /\ cli = NoCli
    /\ IdleMetrics

\* lines 116-133
Load ==
    /\ svrtk.pc = "start"
    /\ svrtk' = [svrtk EXCEPT
                    !.pc = "loop",
                    !.metrics_dict = IF svrtk.exists /\ svrtk.cont
                                     THEN ReadCsv(svrtk.file) ELSE @]
    /\ UNCHANGED <<metricVars, cli>>

\* variant: no run counts as recorded
AlreadyRecorded_never(name, md) == FALSE

\* line 143: run["name"] in metrics_dict.keys()
AlreadyRecorded(name, md) == md[name] # NoRow

\* variant: the session is taken as new each time
NewSubSes_always(sub_ses, processed) == TRUE

\* line 151: sub_ses not in processed_sub_ses
NewSubSes(sub_ses, processed) == sub_ses \notin processed

\* lines 134-152: the head of the loop body for run i
LoopHead ==
    /\ svrtk.pc = "loop"
    /\ svrtk.i <= Len(svrtk.bids)
    /\ svrtk' =
          IF AlreadyRecorded(svrtk.i, svrtk.metrics_dict)
          THEN [svrtk EXCEPT !.i = @ + 1]
          ELSE IF NewSubSes(svrtk.bids[svrtk.i], svrtk.processed_sub_ses)
          THEN [svrtk EXCEPT !.pc = "crop_input",
                             !.processed_sub_ses = @ \cup {svrtk.bids[svrtk.i]}]
          ELSE [svrtk EXCEPT !.pc = "is_run_included"]
    /\ UNCHANGED <<metricVars, cli>>

\* the for loop is exhausted: return 0
Return ==
    /\ svrtk.pc = "loop"
    /\ svrtk.i > Len(svrtk.bids)
    /\ svrtk' = [svrtk EXCEPT !.pc = "returned"]
    /\ UNCHANGED <<metricVars, cli>>

Tool(at, ev, next) ==
    /\ svrtk.pc = at
    /\ svrtk' = [svrtk EXCEPT
                    !.pc = next,
                    !.log = Append(@, Event(ev, svrtk.bids[svrtk.i], svrtk.i))]
    /\ UNCHANGED <<metricVars, cli>>

\* line 155
CropInput == Tool("crop_input", "crop_input", "stacks_selection")

\* line 155, an image or mask that cannot be loaded or saved: main ends
CropInputRaises == Tool("crop_input", "crop_input", "raised")

\* line 156
StacksSelection ==
    Tool("stacks_selection", "stacks_selection", "stacks_and_masks_selection")

\* line 157
StacksAndMasksSelection ==
    Tool("stacks_and_masks_selection", "stacks_and_masks_selection", "is_run_included")

\* lines 158-161
Evaluate(row) ==
    /\ svrtk.pc = "is_run_included"
    /\ svrtk' = [svrtk EXCEPT
                    !.pc = "to_csv",
                    !.metrics_dict[svrtk.i] = row,
                    !.log = Append(@, Event("is_run_included",
                                            svrtk.bids[svrtk.i], svrtk.i))]
    /\ UNCHANGED <<metricVars, cli>>

\* lines 163-166, and on to the next run
Save ==
    /\ svrtk.pc = "to_csv"
    /\ svrtk' = [svrtk EXCEPT
                    !.pc = "loop",
                    !.file = ToCsv(svrtk.metrics_dict, svrtk.bids),
                    !.written = @ + 1,
                    !.i = @ + 1]
    /\ UNCHANGED <<metricVars, cli>>

NextSvrtk ==
    \/ Load
    \/ LoopHead
    \/ Return
    \/ CropInput
    \/ CropInputRaises
    \/ StacksSelection
    \/ StacksAndMasksSelection
    \/ \E row \in Evaluations : Evaluate(row)
    \/ Save

SpecSvrtk == InitSvrtk /\ [][NextSvrtk]_vars

\* ---------------------------------------------------------------- specifications
InitCall ==
    /\ pc = "ready"
    /\ op = "none"
    /\ arith = FALSE
    /\ lib = NoLib
    /\ result = NoResult
    /\ cli = NoCli
    /\ svrtk = NoSvrtk

\* the arrays x_ref a call on x is tried with: every array of the shape of x,
\* and x refitted to every other shape
References(a) == SameShapeArrays(a) \cup {Resized(a, s) : s \in Shapes}

\* x_ref is of the shape of x, or x in another shape, or -x
InitNCC ==
    /\ x \in SortedArrays
    /\ x_ref \in References(x) \cup {Neg(x)}
    /\ bins = 1
    /\ mask = <<>>
    /\ datarange = <<>>
    /\ InitCall

NextNCC == NccShapeCheck \/ NccCompute

SpecNCC == InitNCC /\ [][NextNCC]_vars


\* two arrays of the same shape and a bin count
InitEntropy ==
    /\ x \in {a \in SortedArrays : a.ndim = 1}
    /\ x_ref \in SameShapeArrays(x)
    /\ bins \in 1..MaxBins
    /\ mask = <<>>
    /\ datarange = <<>>
    /\ InitCall

NextEntropy ==
    \/ ShannonEntropy
    \/ JointEntropy
    \/ MutualInformation

SpecEntropy == InitEntropy /\ [][NextEntropy]_vars


\* the three metrics that divide by a quantity their inputs can make zero
NextDegenerate ==
    \/ NccShapeCheck
    \/ NccCompute
    \/ NormalizedMutualInformation
    \/ Nmae

SpecDegenerate == InitEntropy /\ [][NextDegenerate]_vars

\* every metric, called any number of times on the same x, x_ref and mask
InitFrame ==
    /\ x \in {a \in SortedArrays : a.ndim = 1}
    /\ x_ref \in {a \in SortedArrays : Shape(a) = Shape(x)}
    /\ bins = MaxBins
    /\ mask \in {<<>>, <<x>>}
    /\ datarange = <<>>
    /\ InitCall

\* the caller goes on to its next call with the arrays as the last call left them
NextCall ==
    /\ pc = "done"
    /\ pc' = "ready"
    /\ op' = "none"
    /\ arith' = FALSE
    /\ lib' = NoLib
    /\ result' = NoResult
    /\ UNCHANGED <<x, x_ref, bins, mask, datarange, cli, svrtk>>

NextFrame ==
    \/ NccShapeCheck
    \/ NccCompute
    \/ ShannonEntropy
    \/ JointEntropy
    \/ MutualInformation
    \/ NormalizedMutualInformation
    \/ Psnr
    \/ Nrmse
    \/ Rmse
    \/ Mae
    \/ Nmae
    \/ \E ret \in SsimReturns(x) : Ssim(ret)
    \/ NextCall

SpecFrame == InitFrame /\ [][NextFrame]_vars

\* rmse and mae on arrays of equal shape, x_ref = x and x_ref = -x included
InitError ==
    /\ x \in SortedArrays
    /\ x_ref \in SameShapeArrays(x) \cup {Neg(x)}
    /\ bins = 1
    /\ mask = <<>>
    /\ datarange = <<>>
    /\ InitCall

NextError == Rmse \/ Mae

SpecError == InitError /\ [][NextError]_vars

DataRanges == {<<>>} \cup {<<v>> : v \in 0..MaxVal}

\* the metrics that compare x with x_ref element by element, called with arrays
\* of equal and of unequal shape, without a mask
InitPixel ==
    /\ x \in Arrays
    /\ x_ref \in References(x)
    /\ bins = MaxBins
    /\ mask = <<>>
    /\ datarange \in DataRanges
    /\ InitCall

NextPixel ==
    \/ Psnr
    \/ Nrmse
    \/ Rmse
    \/ Mae
    \/ Nmae
    \/ \E ret \in SsimReturns(x) : Ssim(ret)
    \/ JointEntropy
    \/ MutualInformation
    \/ NormalizedMutualInformation
    \/ NccShapeCheck
    \/ NccCompute

SpecPixel == InitPixel /\ [][NextPixel]_vars

\* ssim on images of equal shape, with and without a mask
InitSsim ==
    /\ x \in SortedArrays
    /\ x_ref \in SameShapeArrays(x)
    /\ bins = 1
    /\ mask \in {<<>>} \cup {<<m>> : m \in Masks(x)}
    /\ datarange = <<>>
    /\ InitCall

NextSsim == \E ret \in SsimReturns(x) : Ssim(ret)

SpecSsim == InitSsim /\ [][NextSsim]_vars

\* ---------------------------------------------------------------- claims: NCC
NonConstant(a) == \E i, j \in 1..Size(a) : Flatten(a)[i] # Flatten(a)[j]

NccDone == pc = "done" /\ op = "ncc"

\* C3 (as stated): for every non-constant x, normalized_cross_correlation(x, x)
\* equals 1 and normalized_cross_correlation(x, -x) equals -1.
C3_NccSelfIsOne ==
    (NccDone /\ NonConstant(x)) =>
        /\ (x_ref = x => result = SignedSqrt(1, 1, 1))
        /\ (x_ref = Neg(x) => result = SignedSqrt(-1, 1, 1))

\* C5: normalized_cross_correlation raises ValueError whenever the shapes differ,
\* before any arithmetic on the arrays is done, and the body is entered (and no
\* error is raised) whenever the shapes are equal.
C5_NccShapeCheck ==
    /\ (NccDone /\ Shape(x) # Shape(x_ref)) =>
           (result = Raised("ValueError") /\ ~arith)
    /\ (pc = "ncc_body" => (Shape(x) = Shape(x_ref) /\ ~arith))
    /\ (NccDone /\ Shape(x) = Shape(x_ref)) => (result.kind # "raise" /\ arith)

\* a call with equal element counts but different shapes was rejected
C5_Witness ==
    /\ NccDone
    /\ Shape(x) # Shape(x_ref)
    /\ Size(x) = Size(x_ref)
    /\ result = Raised("ValueError")
    /\ ~arith

\* C11: for equal-shaped non-constant x and x_ref the value returned by
\* normalized_cross_correlation is a number between -1 and 1 inclusive.
C11_NccInRange ==
    (NccDone /\ Shape(x) = Shape(x_ref) /\ NonConstant(x) /\ NonConstant(x_ref)) =>
        /\ result.kind = "ssqrt"
        /\ result.sign \in {-1, 0, 1}
        /\ result.den > 0
        /\ result.num <= result.den

\* a negative correlation of the largest magnitude the code yields, (N-1)/N
C11_Witness ==
    /\ NccDone
    /\ NonConstant(x)
    /\ x_ref # Neg(x)
    /\ Size(x) = MaxLen
    /\ result = SignedSqrt(-1, (Size(x) - 1) * (Size(x) - 1), Size(x) * Size(x))

\* ---------------------------------------------------------------- claims: entropies
Done(name) == pc = "done" /\ op = name

Transposed(h) == [i \in 1..Len(h) |-> [j \in 1..Len(h) |-> h[j][i]]]

RowSums(h) == [i \in 1..Len(h) |-> SumSeq(h[i])]

ColSums(h) == RowSums(Transposed(h))

Reversed(f) == [i \in 1..Len(f) |-> f[Len(f) + 1 - i]]

\* C7: mutual_information is symmetric: mutual_information(x, x_ref, bins) equals
\* mutual_information(x_ref, x, bins), the joint histogram of (x_ref, x) being the
\* transpose of that of (x, x_ref).
C7_MutualInformationSymmetric ==
    Done("mutual_information") =>
        /\ result = mutual_information(x_ref, x, bins)
        /\ JointHistogram(x_ref, x, bins) = Transposed(JointHistogram(x, x_ref, bins))

\* a call whose joint histogram is not symmetric and whose result is positive
C7_Witness ==
    /\ Done("mutual_information")
    /\ JointHistogram(x, x_ref, bins) # Transposed(JointHistogram(x, x_ref, bins))
    /\ Histogram1D(Flatten(x), bins) # Histogram1D(Flatten(x_ref), bins)
    /\ result.kind = "log"
    /\ result.num > result.den

\* C8: mutual_information(x, x, bins) equals shannon_entropy(x, bins): the joint
\* histogram of (x, x) is zero off its diagonal, its diagonal is the histogram
\* of x, and joint_entropy(x, x) equals shannon_entropy(x).
C8_SelfInformationIsEntropy ==
    (Done("mutual_information") /\ x_ref = x) =>
        LET h == Histogram1D(Flatten(x), bins)
            j == JointHistogram(x, x, bins)
        IN /\ result = shannon_entropy(x, bins)
           /\ \A r, c \in 1..bins : j[r][c] = IF r = c THEN h[r] ELSE 0
           /\ joint_entropy(x, x, bins) = shannon_entropy(x, bins)

\* mutual_information(x, x) of a non-constant x over several bins is positive
C8_Witness ==
    /\ Done("mutual_information")
    /\ x_ref = x
    /\ NonConstant(x)
    /\ bins > 1
    /\ result = shannon_entropy(x, bins)
    /\ result.num > result.den

\* C9: for equal-shaped x, x_ref and every bin count, mutual_information is
\* finite and >= 0, and the row and column sums of the joint histogram are the
\* histograms shannon_entropy builds for x and for x_ref.
C9_MutualInformationNonNegative ==
    Done("mutual_information") =>
        LET j == JointHistogram(x, x_ref, bins)
        IN /\ result.kind = "log"
           /\ result.den > 0
           /\ result.num >= result.den
           /\ RowSums(j) = Histogram1D(Flatten(x), bins)
           /\ ColSums(j) = Histogram1D(Flatten(x_ref), bins)

\* the scenario x = 1..n, x_ref = n..1, bins = n (n >= 3): the result is positive
C9_Witness ==
    /\ Done("mutual_information")
    /\ Size(x) >= 3
    /\ \A i \in 1..(Size(x) - 1) : Flatten(x)[i] < Flatten(x)[i + 1]
    /\ Flatten(x_ref) = Reversed(Flatten(x))
    /\ bins = Size(x)
    /\ result.kind = "log"
    /\ result.num > result.den

\* C10: shannon_entropy(x, bins) is in [0, ln(bins)]: the histogram has `bins`
\* cells whose counts sum to x.size, the cells the sum runs over are the nonzero
\* ones (log(0) is not evaluated) and their counts sum to x.size.
C10_ShannonEntropyBounds ==
    Done("shannon_entropy") =>
        LET h == Histogram1D(Flatten(x), bins)
            t == EntropyTerms(h)
        IN /\ Len(h) = bins
           /\ SumSeq(h) = Size(x)
           /\ \A i \in 1..Len(t) : t[i] > 0
           /\ SumSeq(t) = Size(x)
           /\ result.kind = "log"
           /\ result.n = Size(x)
           /\ result.num >= result.den
           /\ result.num <= Pow(bins, result.n) * result.den

\* a histogram with an empty cell, and an entropy strictly inside the interval
C10_Witness ==
    /\ Done("shannon_entropy")
    /\ \E k \in 1..bins : Histogram1D(Flatten(x), bins)[k] = 0
    /\ result.kind = "log"
    /\ result.num > result.den
    /\ result.num < Pow(bins, result.n) * result.den

\* ---------------------------------------------------------------- claims: pixel metrics
TwoArrayMetrics ==
    {"ncc", "joint_entropy", "mutual_information", "normalized_mutual_information",
     "psnr", "nrmse", "rmse", "mae", "nmae", "ssim"}

\* C1 (as stated): ssim without a mask returns the global mean SSIM of the
\* routine; with a mask it returns the mean of the SSIM map over exactly the
\* positions where the mask is nonzero, negative mask values included.
C1_SsimMaskNonzero ==
    (Done("ssim") /\ Shape(x) = Shape(x_ref)) =>
        IF mask = <<>> THEN result = Ratio(lib.mssim, 1)
        ELSE LET sel == Selected_nonzero(lib.S[1], mask[1])
             IN result = IF sel = <<>> THEN NaN ELSE Ratio(SumSeq(sel), Len(sel))

\* C2 (as stated): psnr(x, x_ref) returns NaN whenever the sum of the absolute
\* differences over all elements is below 1e-13, for arrays of any dimensionality.
C2_PsnrIdenticalIsNaN ==
    (Done("psnr") /\ Shape(x) = Shape(x_ref) /\ SumSeq(Flatten(AbsDiff(x, x_ref))) = 0)
        => result = NaN

\* C4 (as stated): every two-array metric fails when x.shape != x_ref.shape.
C4_ShapeMismatchFails ==
    (pc = "done" /\ op \in TwoArrayMetrics /\ Shape(x) # Shape(x_ref))
        => result.kind = "raise"

\* C6 (as stated): psnr and ssim infer the data range exactly when the caller
\* gave none; a given datarange, 0 included, reaches the routine unchanged.
C6_DatarangeGivenIsPassed ==
    (pc = "done" /\ op \in {"psnr", "ssim"} /\ lib.fn # "none") =>
        lib.data_range = IF datarange = <<>> THEN <<InferredRange(x, x_ref)>>
                         ELSE datarange

\* ---------------------------------------------------------------- claims: degenerate inputs and purity
\* C12: on equal-shaped inputs the three divisions by zero raise nothing and
\* return nan or inf: NCC when x or x_ref is constant, NMI when the joint
\* entropy is zero, nmae when the mean of |x_ref| is zero; with equal shapes
\* none of the three metrics raises at all.
NonFinite == result.kind \in {"nan", "inf"}

JointEntropyIsZero ==
    LET j == joint_entropy(x, x_ref, bins) IN j.kind = "log" /\ j.num = j.den

ReferenceIsZero == \A i \in 1..Size(x_ref) : Flatten(x_ref)[i] = 0

C12_DegenerateNonFinite ==
    /\ (NccDone /\ (~NonConstant(x) \/ ~NonConstant(x_ref))) => NonFinite
    /\ (Done("normalized_mutual_information") /\ JointEntropyIsZero) => NonFinite
    /\ (Done("nmae") /\ ReferenceIsZero) => NonFinite
    /\ pc = "done" => result.kind # "raise"

\* nmae against an all-zero reference, of a non-zero x (inf)
C12_Witness ==
    /\ Done("nmae")
    /\ ReferenceIsZero
    /\ NonConstant(x)
    /\ result = Inf(1)

\* C13: no step of any metric changes the arrays x, x_ref and mask (nor bins
\* and datarange) it was called with, over any sequence of calls, the in-place
\* operators of NCC, MI and NMI included.
C13_InputsUntouched ==
    [][/\ x' = x
       /\ x_ref' = x_ref
       /\ mask' = mask
       /\ bins' = bins
       /\ datarange' = datarange]_vars

\* NCC has gone through its in-place division on a non-constant masked pair
C13_Witness ==
    /\ NccDone
    /\ arith
    /\ NonConstant(x)
    /\ NonConstant(x_ref)
    /\ mask = <<x>>
    /\ result.kind = "ssqrt"

\* C14: on arrays of equal shape rmse and mae return a number that is never
\* negative, and that is zero when x_ref is x itself.
C14_ErrorsNonNegative ==
    /\ Done("rmse") =>
           /\ result.kind = "ssqrt"
           /\ result.sign >= 0
           /\ result.num >= 0
           /\ x_ref = x => (result.sign = 0 /\ result.num = 0)
    /\ Done("mae") =>
           /\ result.kind = "ratio"
           /\ result.sign >= 0
           /\ result.num >= 0
           /\ x_ref = x => (result.sign = 0 /\ result.num = 0)

\* mae of a non-constant x against a different reference that is larger in
\* places and smaller in others
C14_Witness ==
    /\ Done("mae")
    /\ NonConstant(x)
    /\ \E i, j \in 1..Size(x) :
           Flatten(x)[i] < Flatten(x_ref)[i] /\ Flatten(x)[j] > Flatten(x_ref)[j]
    /\ result.sign = 1

\* ---------------------------------------------------------------- claims: run_docker
\* the command line is one the checks of main are meant to refuse
InvalidArgs ==
    \/ cli.command \notin {"reports", "inference"}
    \/ cli.absolute # {}
    \/ ~cli.ckpt_default
    \/ cli.command = "inference" /\ ~cli.custom_none

NoSideEffect == cli.dirs = 0 /\ ~cli.docker /\ cli.entered = "none"

\* C15: a command line with an absolute output path, a changed ckpt_path, a
\* custom_model (inference) or a command other than reports and inference ends
\* in a ValueError with no directory made and no docker launched; run_reports
\* and run_inference are entered only after every check passed.
C15_ValidationBeforeEffects ==
    /\ (cli.pc = "exit" /\ InvalidArgs) => (cli.err = "ValueError" /\ NoSideEffect)
    /\ ~NoSideEffect => (~InvalidArgs /\ cli.err = "")

\* what holds of the code: an invalid command line has no side effect
C15_NoEffectWhenInvalid ==
    /\ InvalidArgs => NoSideEffect
    /\ (cli.pc = "exit" /\ InvalidArgs) => cli.err \in {"ValueError", "AttributeError"}

\* ---------------------------------------------------------------- claims: run_qc_svrtk
Continuing == svrtk.exists /\ svrtk.cont

Listed == DOMAIN svrtk.bids

Events(ev) == {k \in DOMAIN svrtk.log : svrtk.log[k].ev = ev}

SameNumbers(r, q) == Num(r[1]) = Num(q[1]) /\ Num(r[2]) = Num(q[2])

\* C16: when main continues from a metrics.csv, a run named in that file is
\* not evaluated again and its entry of metrics_dict stays as loaded; every
\* metrics.csv written holds, for each such run listed in the bids csv, the
\* numbers the file held before; and after each newly processed run the file
\* holds every listed run recorded so far, one write per processed run.
C16_ContinueKeepsStored ==
    (Continuing /\ svrtk.pc # "start") =>
        /\ \A n \in Present(svrtk.file0) :
              /\ \A k \in Events("is_run_included") : svrtk.log[k].run # n
              /\ svrtk.metrics_dict[n] = ReadCsv(svrtk.file0)[n]
              /\ (svrtk.written > 0 /\ n \in Listed) =>
                     /\ svrtk.file[n] # NoRow
                     /\ SameNumbers(svrtk.file[n], svrtk.file0[n])
        /\ svrtk.written = Cardinality(Events("is_run_included"))
                              - (IF svrtk.pc = "to_csv" THEN 1 ELSE 0)
        /\ (svrtk.written > 0 /\ svrtk.pc # "to_csv") =>
               \A n \in Listed :
                  svrtk.metrics_dict[n] # NoRow =>
                      /\ svrtk.file[n] # NoRow
                      /\ SameNumbers(svrtk.file[n], svrtk.metrics_dict[n])

\* a stored run listed after a new one: the file has been rewritten with both
C16_Witness ==
    /\ Continuing
    /\ svrtk.pc = "returned"
    /\ svrtk.written > 0
    /\ \E n \in Present(svrtk.file0) \cap Listed :
           /\ n > 1
           /\ svrtk.file0[n] = <<"1", "0">>
           /\ svrtk.file[n] # svrtk.file0[n]
    /\ 0 \in Present(svrtk.file0)

\* the three tools ran at most once for a pair, in their order, before any
\* is_run_included of the pair
ToolsOnceInOrder ==
    \A pair \in SubSes :
       LET of(ev) == {k \in Events(ev) : svrtk.log[k].pair = pair}
           crop == of("crop_input")
           sel  == of("stacks_selection")
           selm == of("stacks_and_masks_selection")
           incl == of("is_run_included")
       IN /\ Cardinality(crop) <= 1
          /\ Cardinality(sel) <= 1
          /\ Cardinality(selm) <= 1
          /\ \A k \in sel : \E c \in crop : c < k
          /\ \A k \in selm : \E c \in sel : c < k
          /\ \A k \in incl : \E c \in selm : c < k

\* C17, as stated: the tools run once per pair, in order, before the pair's
\* is_run_included, and only for a pair with a run that the metrics.csv found
\* at out_path does not name.
C17_ToolsOncePerPair ==
    svrtk.pc \notin {"start", "raised"} =>
        /\ ToolsOnceInOrder
        /\ \A k \in Events("crop_input") :
              \E n \in Listed :
                 /\ svrtk.bids[n] = svrtk.log[k].pair
                 /\ n \notin Present(svrtk.file0)

\* C17, amended: ... and only for a pair with a run that metrics_dict did not
\* hold after loading, i.e. that metrics.csv does not name when main continues
\* from it, and any listed run under --no-continue_run.
C17_ToolsOncePerPairLoaded ==
    svrtk.pc \notin {"start", "raised"} =>
        /\ ToolsOnceInOrder
        /\ \A k \in Events("crop_input") :
              \E n \in Listed :
                 /\ svrtk.bids[n] = svrtk.log[k].pair
                 /\ (Continuing => n \notin Present(svrtk.file0))

\* two sessions, each with its tools run once, the second after a skipped run
C17_Witness ==
    /\ svrtk.pc = "returned"
    /\ Continuing
    /\ Cardinality(Events("crop_input")) = 2
    /\ Cardinality(Events("stacks_and_masks_selection")) = 2
    /\ Cardinality(Events("is_run_included")) = 2
    /\ Present(svrtk.file0) \cap Listed # {}

====
